---- MODULE Spec2Model ----
(***************************************************************************)
(* Model of the banner registry and auction module                         *)
(* (runtime/src/banners.rs).  Storage items are the variables; each        *)
(* dispatchable call is one action that runs the whole handler.  Storage   *)
(* writes made before a handler returns Err stay written: the module runs  *)
(* on a runtime whose dispatch does not roll storage back.                 *)
(***************************************************************************)
EXTENDS Integers, Sequences, FiniteSets, TLC

\* ------------------------------------------------------------------ bounds
MaxBanners == 2
MaxPrice == 2
MaxBalance == 2
MaxEpoch == 1
MaxStrays == 1

\* ------------------------------------------------------- program constants
AUCTION_DURATION == 24 * 600

\* ------------------------------------------------------------------ inputs
Accounts == {1, 2, 3}
\* the accounts that mint; accounts are interchangeable, and any account can
\* come to own a banner by winning its auction
Creators == {1, 2}
\* values the hash of (random_seed, sender, nonce) can take; 0 is the default
\* (all-zero) hash that a storage read of a missing key returns
Hashes == 1 .. MaxBanners
DefaultHash == 0
\* BannerOwner holds no account for the banner (Option::None)
NoOwner == 0
\* a starting price of MaxPrice could never be outbid, a bid of 0 never accepted
StartingPrices == 0 .. MaxPrice - 1
BidPrices == 1 .. MaxPrice
\* the byte strings given as name, image url and description
Names == {0}
Urls == {0}
Descs == {0}

\* -------------------------------------------------------- u64 block numbers
\* a block number (T::BlockNumber = u64) is held as its four 16-bit limbs, most
\* significant first, so that the numbers next to 2^64 are values of the model
LimbBase == 65536
\* the u64 of a number below 2^31
U64(n) == <<0, 0, n \div LimbBase, n % LimbBase>>
\* x + y on u64: the sum modulo 2^64, and whether it passed 2^64
AddU64(x, y) ==
    LET s4 == x[4] + y[4]
        s3 == x[3] + y[3] + s4 \div LimbBase
        s2 == x[2] + y[2] + s3 \div LimbBase
        s1 == x[1] + y[1] + s2 \div LimbBase
    IN  [value |-> <<s1 % LimbBase, s2 % LimbBase, s3 % LimbBase, s4 % LimbBase>>,
         overflow |-> s1 >= LimbBase]
\* x < y on u64
LessU64(x, y) ==
    IF x[1] /= y[1] THEN x[1] < y[1]
    ELSE IF x[2] /= y[2] THEN x[2] < y[2]
    ELSE IF x[3] /= y[3] THEN x[3] < y[3]
    ELSE x[4] < y[4]

\* 2^64 - AUCTION_DURATION, the first block number at which line 119 overflows
FirstWrappingBlock ==
    <<LimbBase - 1, LimbBase - 1, LimbBase - 1, LimbBase - AUCTION_DURATION>>
\* block numbers at which calls are dispatched
ClockValues == {U64(e * AUCTION_DURATION) : e \in 0 .. MaxEpoch}

\* ------------------------------------------------------------ storage maps
EmptyMap == [k \in {} |-> 0]
MapExists(m, k) == k \in DOMAIN m
MapGet(m, k, default) == IF k \in DOMAIN m THEN m[k] ELSE default
MapInsert(m, k, v) == [x \in (DOMAIN m) \cup {k} |-> IF x = k THEN v ELSE m[x]]
MapRemove(m, k) == [x \in (DOMAIN m) \ {k} |-> m[x]]

VARIABLES
    Banners,            \* map Hash => Banner
    BannerOwner,        \* map Hash => Option<AccountId>
    AllBannersArray,    \* map u64 => Hash
    AllBannersCount,    \* u64
    AllBannersIndex,    \* map Hash => u64
    OwnedBannersArray,  \* map (AccountId, u64) => Hash
    OwnedBannersCount,  \* map AccountId => u64
    OwnedBannersIndex,  \* map Hash => u64
    Nonce,              \* u64
    block_number,       \* system::block_number()
    FreeBalance,        \* the balances module's ledger
    events,             \* events deposited by the most recent call
    result,             \* Result of the most recent call
    round               \* per banner: bookkeeping of the payments of its auction round

vars == <<Banners, BannerOwner, AllBannersArray, AllBannersCount, AllBannersIndex,
          OwnedBannersArray, OwnedBannersCount, OwnedBannersIndex, Nonce,
          block_number, FreeBalance, events, result, round>>

registry == <<BannerOwner, AllBannersArray, AllBannersCount, AllBannersIndex,
              OwnedBannersArray, OwnedBannersCount, OwnedBannersIndex, Nonce>>

\* ----------------------------------------------------------------- getters
owner_of(id) == MapGet(BannerOwner, id, NoOwner)
owned_banner_count(who) == MapGet(OwnedBannersCount, who, 0)
banner_by_index(i) == MapGet(AllBannersArray, i, DefaultHash)
banner_of_owner_by_index(who, i) == MapGet(OwnedBannersArray, <<who, i>>, DefaultHash)

Ok == "Ok"

Init ==
    /\ Banners = EmptyMap
    /\ BannerOwner = EmptyMap
    /\ AllBannersArray = EmptyMap
    /\ AllBannersCount = 0
    /\ AllBannersIndex = EmptyMap
    /\ OwnedBannersArray = EmptyMap
    /\ OwnedBannersCount = EmptyMap
    /\ OwnedBannersIndex = EmptyMap
    /\ Nonce = 0
    /\ block_number = U64(0)
    /\ FreeBalance = [a \in Accounts |-> MaxBalance]
    /\ events = <<>>
    /\ result = Ok
    /\ round = EmptyMap

\* ---------------------------------------------------------- value ledger
\* Currency::transfer of the balances module (no fees, no existential
\* deposit): fails when the payer's free balance is below the value, and
\* changes nothing when payer and payee are the same account
CurrencyTransfer(bal, from, to, value) ==
    IF bal[from] < value
    THEN [ok |-> FALSE, bal |-> bal]
    ELSE IF from = to
    THEN [ok |-> TRUE, bal |-> bal]
    ELSE [ok |-> TRUE,
          bal |-> [bal EXCEPT ![from] = bal[from] - value, ![to] = bal[to] + value]]

\* ------------------------------------------------------------------ events
CreateBannerEvent(who, id) == <<"CreateBanner", who, id>>
StartAuctionEvent(who, id, price) == <<"StartAuction", who, id, price>>
BidEvent(who, id, price) == <<"Bid", who, id, price>>
TransferredEvent(from, to, id) == <<"Transferred", from, to, id>>
DealEvent(who, id, price) == <<"Deal", who, id, price>>
AbortEvent(who, id) == <<"Abort", who, id>>

\* -------------------------------------------------------------- arithmetic
None == -1
\* n = u64::MAX = 2^64 - 1, read off the four 16-bit limbs of n: each of them
\* is 65535 (2^64 itself is beyond the integers TLC computes with)
IsU64Max(n) ==
    LET upper48 == n \div 65536
        upper32 == upper48 \div 65536
        upper16 == upper32 \div 65536
    IN  /\ n % 65536 = 65535
        /\ upper48 % 65536 = 65535
        /\ upper32 % 65536 = 65535
        /\ upper16 = 65535
\* u64::checked_add(1): None at u64::MAX, Some(n + 1) below it
CheckedAdd1(n) == IF IsU64Max(n) THEN None ELSE n + 1
\* u64::checked_sub(1)
CheckedSub1(n) == IF n = 0 THEN None ELSE n - 1

\* -------------------------------------------------------------------- mint
\* mutant: a new banner is open for bids
NewBanner_Biddable(sender, id, name, url, desc) ==
    [id |-> id, name |-> name, image_url |-> url, desc |-> desc,
     current_price |-> 0, current_bidder |-> sender,
     bid_end_height |-> U64(0), can_bid |-> TRUE]

NewBanner(sender, id, name, url, desc) ==
    [id |-> id, name |-> name, image_url |-> url, desc |-> desc,
     current_price |-> 0, current_bidder |-> sender,
     bid_end_height |-> U64(0), can_bid |-> FALSE]

\* mutant: the nonce of line 84 is bumped before mint is tried
mint_fails_BumpsNonce(err) ==
    /\ result' = err
    /\ events' = <<>>
    /\ Nonce' = Nonce + 1
    /\ UNCHANGED <<Banners, BannerOwner, AllBannersArray, AllBannersCount, AllBannersIndex,
                   OwnedBannersArray, OwnedBannersCount, OwnedBannersIndex,
                   block_number, FreeBalance, round>>

\* lines 180-190 and 82: mint returns Err before any write, create_banner passes it on
mint_fails(err) ==
    /\ result' = err
    /\ events' = <<>>
    /\ UNCHANGED <<Banners, registry, block_number, FreeBalance, round>>

\* an addition without overflow check (lines 84 and 119) passes 2^64 in a build
\* with overflow checks: the call panics and none of its writes is kept
Panic == "panicked at 'attempt to add with overflow'"
call_panics ==
    /\ result' = Panic
    /\ events' = <<>>
    /\ UNCHANGED <<Banners, registry, block_number, FreeBalance, round>>

\* line 84, `*n += 1` on u64: n + 1 below u64::MAX; at u64::MAX the build decides
\* between wrapping to 0 and a panic (None)
NonceOutcomes(n) == IF IsU64Max(n) THEN {0, None} ELSE {n + 1}

\* mutant: the slot is taken from the owner's count
GlobalPosition_Owned(all_count, owned_count) == owned_count

\* lines 195 and 197: the slot of a new banner in the global array
GlobalPosition(all_count, owned_count) == all_count

create_banner(sender, name, url, desc, random_hash) ==
    LET new_banner == NewBanner(sender, random_hash, name, url, desc)
        owned_count == owned_banner_count(sender)
        new_owned_count == CheckedAdd1(owned_count)
        all_count == AllBannersCount
        new_all_count == CheckedAdd1(all_count)
        position == GlobalPosition(all_count, owned_count)
    IN  IF MapExists(BannerOwner, random_hash) THEN mint_fails("banner already exists")
        ELSE IF new_owned_count = None
        THEN mint_fails("Overflow adding a new banner to account balance")
        ELSE IF new_all_count = None
        THEN mint_fails("Overflow adding a new banner to total supply")
        ELSE \E new_nonce \in NonceOutcomes(Nonce) :
             IF new_nonce = None THEN call_panics
             ELSE
             /\ Banners' = MapInsert(Banners, random_hash, new_banner)
             /\ BannerOwner' = MapInsert(BannerOwner, random_hash, sender)
             /\ AllBannersArray' = MapInsert(AllBannersArray, position, random_hash)
             /\ AllBannersCount' = new_all_count
             /\ AllBannersIndex' = MapInsert(AllBannersIndex, random_hash, position)
             /\ OwnedBannersArray' =
                    MapInsert(OwnedBannersArray, <<sender, owned_count>>, random_hash)
             /\ OwnedBannersCount' = MapInsert(OwnedBannersCount, sender, new_owned_count)
             /\ OwnedBannersIndex' = MapInsert(OwnedBannersIndex, random_hash, owned_count)
             /\ Nonce' = new_nonce
             /\ events' = <<CreateBannerEvent(sender, random_hash)>>
             /\ result' = Ok
             /\ UNCHANGED <<block_number, FreeBalance, round>>

\* ----------------------------------------------------------- set_image_url
\* the error of the first failed check, or Ok
OwnerCheck(sender, banner_id) ==
    IF ~MapExists(Banners, banner_id) THEN "This banner does not exist"
    ELSE IF ~MapExists(BannerOwner, banner_id) THEN "No owner for this banner"
    ELSE IF owner_of(banner_id) /= sender THEN "You do not own this banner"
    ELSE Ok

set_image_url(sender, banner_id, new_url) ==
    /\ events' = <<>>
    /\ result' = OwnerCheck(sender, banner_id)
    /\ Banners' = IF OwnerCheck(sender, banner_id) = Ok
                  THEN [Banners EXCEPT ![banner_id].image_url = new_url]
                  ELSE Banners
    /\ UNCHANGED <<registry, block_number, FreeBalance, round>>

\* ---------------------------------------------------------- auction_banner
\* mutant: the check of line 114 left out
NotYetAuctioned_Always(banner) == TRUE

\* line 114
NotYetAuctioned(banner) == banner.can_bid = FALSE

\* line 119: block_number() + AUCTION_DURATION on u64
Deadline(now) == AddU64(now, U64(AUCTION_DURATION))

\* lines 116-119, in a build whose addition wraps
OpenAuction(banner, sender, starting_price, now) ==
    [banner EXCEPT !.current_price = starting_price,
                   !.can_bid = TRUE,
                   !.current_bidder = sender,
                   !.bid_end_height = Deadline(now).value]

\* the bookkeeping of a round that has just opened; net is what the transfers
\* of bid calls on this banner have added to each account in this round, and
\* strays counts the calls that moved money and returned Err
NoNet == [a \in Accounts |-> 0]
NewRound(starting_price) ==
    [start |-> starting_price, received |-> 0, owner_paid |-> 0, bids |-> 0,
     net |-> NoNet, strays |-> 0]

auction_banner(sender, banner_id, starting_price) ==
    IF OwnerCheck(sender, banner_id) /= Ok
    THEN /\ result' = OwnerCheck(sender, banner_id)
         /\ events' = <<>>
         /\ UNCHANGED <<Banners, registry, block_number, FreeBalance, round>>
    ELSE IF ~NotYetAuctioned(Banners[banner_id])
    THEN /\ result' = "This banner has already been auctioned"
         /\ events' = <<>>
         /\ UNCHANGED <<Banners, registry, block_number, FreeBalance, round>>
    ELSE \* when the sum of line 119 passes 2^64 the build decides: a build with
         \* overflow checks panics there, any other build wraps and goes on
         \/ /\ Deadline(block_number).overflow
            /\ call_panics
         \/ /\ Banners' = [Banners EXCEPT ![banner_id] =
                               OpenAuction(@, sender, starting_price, block_number)]
            /\ events' = <<StartAuctionEvent(sender, banner_id, starting_price)>>
            /\ result' = Ok
            /\ round' = MapInsert(round, banner_id, NewRound(starting_price))
            /\ UNCHANGED <<registry, block_number, FreeBalance>>

\* ----------------------------------------------------------- transfer_from
\* lines 222-226: the banner in the last slot of `from` moves into the slot
\* the transferred banner leaves
ArrayAfterSwap(arr, from, banner_index, last_index) ==
    IF banner_index /= last_index
    THEN MapInsert(arr, <<from, banner_index>>, MapGet(arr, <<from, last_index>>, DefaultHash))
    ELSE arr

\* mutant: line 225 left out, the moved banner keeps its old reverse index
IndexAfterSwap_NoUpdate(idx, arr, from, banner_index, last_index) == idx

IndexAfterSwap(idx, arr, from, banner_index, last_index) ==
    IF banner_index /= last_index
    THEN MapInsert(idx, MapGet(arr, <<from, last_index>>, DefaultHash), banner_index)
    ELSE idx

\* mutant: line 231 left out, the popped slot keeps its entry
ArrayAfterMove_NoRemove(arr, from, to, last_index, to_index, banner_id) ==
    MapInsert(arr, <<to, to_index>>, banner_id)

\* lines 231-232
ArrayAfterMove(arr, from, to, last_index, to_index, banner_id) ==
    MapInsert(MapRemove(arr, <<from, last_index>>), <<to, to_index>>, banner_id)

\* mutant: lines 234-235 write each new count under the other account
CountsAfterMove_Crossed(counts, from, to, new_from, new_to) ==
    MapInsert(MapInsert(counts, from, new_to), to, new_from)

\* mutant: line 234 left out, the count of `from` is not lowered
CountsAfterMove_NoDecrement(counts, from, to, new_from, new_to) ==
    MapInsert(counts, to, new_to)

\* lines 234-235
CountsAfterMove(counts, from, to, new_from, new_to) ==
    MapInsert(MapInsert(counts, from, new_from), to, new_to)

\* the storage transfer_from leaves behind and its Result
transfer_from(from, to, banner_id) ==
    LET unchanged(err) ==
            [result |-> err, BannerOwner |-> BannerOwner,
             OwnedBannersArray |-> OwnedBannersArray,
             OwnedBannersCount |-> OwnedBannersCount,
             OwnedBannersIndex |-> OwnedBannersIndex, events |-> <<>>]
        count_from == owned_banner_count(from)
        count_to == owned_banner_count(to)
        new_count_to == CheckedAdd1(count_to)
        new_count_from == CheckedSub1(count_from)
        banner_index == MapGet(OwnedBannersIndex, banner_id, 0)
        swapped_arr == ArrayAfterSwap(OwnedBannersArray, from, banner_index, new_count_from)
        swapped_idx == IndexAfterSwap(OwnedBannersIndex, OwnedBannersArray, from,
                                      banner_index, new_count_from)
    IN  IF ~MapExists(BannerOwner, banner_id) THEN unchanged("No owner for this banner")
        ELSE IF owner_of(banner_id) /= from
        THEN unchanged("'from' account does not own this banner")
        ELSE IF new_count_to = None
        THEN unchanged("Transfer causes overflow of 'to' banner balance")
        ELSE IF new_count_from = None
        THEN unchanged("Transfer causes underflow of 'from' banner balance")
        ELSE [result |-> Ok,
              BannerOwner |-> MapInsert(BannerOwner, banner_id, to),
              OwnedBannersIndex |-> MapInsert(swapped_idx, banner_id, count_to),
              OwnedBannersArray |->
                  ArrayAfterMove(swapped_arr, from, to, new_count_from, count_to, banner_id),
              OwnedBannersCount |->
                  CountsAfterMove(OwnedBannersCount, from, to, new_count_from, new_count_to),
              events |-> <<TransferredEvent(from, to, banner_id)>>]

\* --------------------------------------------------------------------- bid
\* mutant: the check of line 135 left out
CanBid_Always(banner) == TRUE

\* line 135
CanBid(banner) == banner.can_bid

\* mutant: the deadline is compared with zero, not with the current block
StillOpen_FromGenesis(bid_end_height, now) == LessU64(U64(0), bid_end_height)

\* mutant: the deadline block itself still takes bids
StillOpen_Inclusive(bid_end_height, now) == ~LessU64(bid_end_height, now)

\* line 137
StillOpen(bid_end_height, now) == LessU64(now, bid_end_height)
\* mutant: a bid equal to the current price is taken
BidHighEnough_OrEqual(bid_price, current_price) == bid_price >= current_price

\* mutant: any price other than the current one passes
BidHighEnough_NotEqual(bid_price, current_price) == bid_price /= current_price

\* line 140
BidHighEnough(bid_price, current_price) == bid_price > current_price
\* mutant: the owner is paid the whole bid
IncrementalPayment_FullBid(bid_price, current_price) == bid_price

\* line 143: what the bidder pays the owner
IncrementalPayment(bid_price, current_price) == bid_price - current_price
\* mutant: line 145 left out, the leading bidder is not recorded
AcceptBid_KeepsBidder(banner, sender, bid_price) ==
    [banner EXCEPT !.current_price = bid_price]

\* lines 145-146
AcceptBid(banner, sender, bid_price) ==
    [banner EXCEPT !.current_bidder = sender, !.current_price = bid_price]
\* mutant: line 157 left out, the deadline survives the reset
ResetAuction_KeepsDeadline(banner, final_bidder) ==
    [banner EXCEPT !.can_bid = FALSE,
                   !.current_bidder = final_bidder, !.current_price = 0]

\* mutant: line 159 left out, the price survives the reset
ResetAuction_KeepsPrice(banner, final_bidder) ==
    [banner EXCEPT !.can_bid = FALSE, !.bid_end_height = U64(0),
                   !.current_bidder = final_bidder]

\* lines 156-159
ResetAuction(banner, final_bidder) ==
    [banner EXCEPT !.can_bid = FALSE, !.bid_end_height = U64(0),
                   !.current_bidder = final_bidder, !.current_price = 0]
\* line 162
NobodyBid(final_bidder, owner) == final_bidder = owner

\* the bookkeeping of a round after a bid whose payments went through
RoundAfterBid(r, sender, owner, refund, payment) ==
    [r EXCEPT !.received = @ + payment,
              !.owner_paid = @ + (IF sender = owner THEN refund + payment ELSE 0),
              !.bids = @ + 1]

\* the net amounts of a round after transfers took the balances from
\* `before` to `after`
NetAfter(net, before, after) == [a \in Accounts |-> net[a] + after[a] - before[a]]

\* net is kept for a round up to MaxStrays calls that moved money and
\* returned Err; past that the bookkeeping of net is dropped
NetKept(r) == r.strays <= MaxStrays
RoundAfterTransfers(r, before, after) ==
    IF NetKept(r) THEN [r EXCEPT !.net = NetAfter(@, before, after)] ELSE r
RoundAfterStray(r, before, after) ==
    IF before = after THEN r
    ELSE IF r.strays < MaxStrays
    THEN [r EXCEPT !.net = NetAfter(@, before, after), !.strays = @ + 1]
    ELSE [r EXCEPT !.net = NoNet, !.strays = MaxStrays + 1]

bid_fails(err) ==
    /\ result' = err
    /\ events' = <<>>
    /\ UNCHANGED <<Banners, registry, block_number, FreeBalance, round>>

\* lines 139-150: the deadline is not reached
bid_open(sender, banner_id, bid_price) ==
    LET owner == owner_of(banner_id)
        banner == Banners[banner_id]
        payment == IncrementalPayment(bid_price, banner.current_price)
        refunded == CurrencyTransfer(FreeBalance, sender, banner.current_bidder,
                                     banner.current_price)
        paid == CurrencyTransfer(refunded.bal, sender, owner, payment)
    IN  IF owner = sender THEN bid_fails("You can't bid your own banner")
        ELSE IF ~BidHighEnough(bid_price, banner.current_price)
        THEN bid_fails("your bid price must be greater than current price")
        ELSE IF ~refunded.ok THEN bid_fails("balance too low to send value")
        ELSE IF ~paid.ok
        THEN \* the refund of line 142 is already written
             /\ FreeBalance' = refunded.bal
             /\ result' = "balance too low to send value"
             /\ events' = <<>>
             /\ round' = [round EXCEPT ![banner_id] =
                              RoundAfterStray(@, FreeBalance, refunded.bal)]
             /\ UNCHANGED <<Banners, registry, block_number>>
        ELSE /\ FreeBalance' = paid.bal
             /\ Banners' = [Banners EXCEPT ![banner_id] = AcceptBid(@, sender, bid_price)]
             /\ events' = <<BidEvent(sender, banner_id, bid_price)>>
             /\ result' = Ok
             /\ round' = [round EXCEPT ![banner_id] =
                              RoundAfterTransfers(
                                  RoundAfterBid(@, sender, owner, banner.current_price, payment),
                                  FreeBalance, paid.bal)]
             /\ UNCHANGED <<registry, block_number>>

\* lines 153-169: the deadline is reached, the round is resolved
bid_resolve(sender, banner_id, bid_price) ==
    LET owner == owner_of(banner_id)
        banner == Banners[banner_id]
        final_price == banner.current_price
        final_bidder == banner.current_bidder
        moved == transfer_from(owner, final_bidder, banner_id)
    IN  /\ Banners' = [Banners EXCEPT ![banner_id] = ResetAuction(@, final_bidder)]
        /\ round' = MapRemove(round, banner_id)
        /\ UNCHANGED <<AllBannersArray, AllBannersCount, AllBannersIndex, Nonce,
                       block_number, FreeBalance>>
        /\ IF NobodyBid(final_bidder, owner)
           THEN /\ events' = <<AbortEvent(owner, banner_id)>>
                /\ result' = Ok
                /\ UNCHANGED <<BannerOwner, OwnedBannersArray, OwnedBannersCount,
                               OwnedBannersIndex>>
           ELSE /\ BannerOwner' = moved.BannerOwner
                /\ OwnedBannersArray' = moved.OwnedBannersArray
                /\ OwnedBannersCount' = moved.OwnedBannersCount
                /\ OwnedBannersIndex' = moved.OwnedBannersIndex
                /\ result' = moved.result
                /\ events' = IF moved.result = Ok
                             THEN moved.events \o <<DealEvent(final_bidder, banner_id, final_price)>>
                             ELSE <<>>

bid(sender, banner_id, bid_price) ==
    IF ~MapExists(Banners, banner_id) THEN bid_fails("This banner does not exist")
    ELSE IF ~MapExists(BannerOwner, banner_id) THEN bid_fails("No owner for this banner")
    ELSE IF ~CanBid(Banners[banner_id]) THEN bid_fails("This banner can't be bid")
    ELSE IF StillOpen(Banners[banner_id].bid_end_height, block_number)
    THEN bid_open(sender, banner_id, bid_price)
    ELSE bid_resolve(sender, banner_id, bid_price)

\* the clock is advanced between calls, never by the module
AdvanceClock ==
    /\ \E h \in ClockValues : LessU64(block_number, h) /\ block_number' = h
    /\ UNCHANGED <<Banners, registry, FreeBalance, events, result, round>>

\* the hash of (random_seed, sender, nonce) is any value of Hashes: the seed is
\* not known to the module, and two derivations may collide
CreateBanner ==
    \E sender \in Creators, name \in Names, url \in Urls, desc \in Descs, h \in Hashes :
        create_banner(sender, name, url, desc, h)
SetImageUrl == \E sender \in Accounts, id \in Hashes, url \in Urls : set_image_url(sender, id, url)
AuctionBanner == \E sender \in Accounts, id \in Hashes, p \in StartingPrices : auction_banner(sender, id, p)
Bid == \E sender \in Accounts, id \in Hashes, p \in BidPrices : bid(sender, id, p)

Next == CreateBanner \/ SetImageUrl \/ AuctionBanner \/ Bid \/ AdvanceClock

Spec == Init /\ [][Next]_vars

\* ================================================================== claims
Minted == DOMAIN BannerOwner
IsOpen(id) == id \in DOMAIN Banners /\ Banners[id].can_bid
\* the deadline of an open banner is reached: bid takes the resolution path
Expired(id) == IsOpen(id) /\ ~LessU64(block_number, Banners[id].bid_end_height)
\* the live positions of an owner's forward array
LivePositions(who) == 0 .. owned_banner_count(who) - 1
HasEvent(log, e) == \E i \in 1 .. Len(log) : log[i] = e
\* a Transferred(from, to, id) event of the last call that left `from` with a banner
SoldOneOfTwo(from, to, id) ==
    /\ HasEvent(events, TransferredEvent(from, to, id))
    /\ owned_banner_count(from) >= 1

RECURSIVE SumCounts(_)
SumCounts(S) ==
    IF S = {} THEN 0
    ELSE LET a == CHOOSE x \in S : TRUE IN owned_banner_count(a) + SumCounts(S \ {a})

\* C1: for every minted banner the reverse-index value is its position in the
\* global forward array and in its current owner's forward array
C1_IndexConsistency ==
    \A a \in Minted :
        /\ a \in DOMAIN AllBannersIndex
        /\ banner_by_index(AllBannersIndex[a]) = a
        /\ a \in DOMAIN OwnedBannersIndex
        /\ banner_of_owner_by_index(owner_of(a), OwnedBannersIndex[a]) = a

\* a sale moved the seller's last banner into the slot of the banner sold
C1_Witness ==
    \E from \in Accounts, to \in Accounts, id \in Minted, other \in Minted :
        /\ SoldOneOfTwo(from, to, id)
        /\ other /= id
        /\ owner_of(other) = from
        /\ AllBannersIndex[other] > AllBannersIndex[id]
        /\ OwnedBannersIndex[other] = 0

\* C2: the per-owner counts add up to the global count
C2_CountConservation == SumCounts(Accounts) = AllBannersCount

\* both banners minted and one of them sold
C2_Witness ==
    /\ AllBannersCount = 2
    /\ \E from \in Accounts, to \in Accounts, id \in Minted :
           /\ HasEvent(events, TransferredEvent(from, to, id))
           /\ owned_banner_count(to) >= 1

\* C3: every minted banner has exactly one live entry over all per-owner arrays,
\* in the array of its recorded owner, and every owner's array is dense: its
\* stored slots are exactly the positions below its count
C3_SingleDenseOwnership ==
    /\ \A a \in Minted :
           /\ Cardinality({k \in DOMAIN OwnedBannersArray :
                               /\ k[2] \in LivePositions(k[1])
                               /\ OwnedBannersArray[k] = a}) = 1
           /\ \E i \in LivePositions(owner_of(a)) :
                  banner_of_owner_by_index(owner_of(a), i) = a
    /\ DOMAIN OwnedBannersArray = {k \in Accounts \X (0 .. AllBannersCount) :
                                       k[2] \in LivePositions(k[1])}
    /\ \A k \in DOMAIN OwnedBannersArray : OwnedBannersArray[k] \in Minted

\* a sale emptied the seller's array or left it with one banner in slot 0
C3_Witness ==
    \E from \in Accounts, to \in Accounts, id \in Minted :
        /\ HasEvent(events, TransferredEvent(from, to, id))
        /\ owned_banner_count(from) = 1
        /\ <<from, 0>> \in DOMAIN OwnedBannersArray
        /\ banner_of_owner_by_index(to, owned_banner_count(to) - 1) = id

\* `id` is among the live entries of the forward array of `who`
InOwnerIndex(arr, counts, who, id) ==
    \E i \in 0 .. MapGet(counts, who, 0) - 1 : MapGet(arr, <<who, i>>, DefaultHash) = id
\* bid's accepted-bid branch: open, deadline ahead, not the owner, a higher price
AcceptedBidCase(sender, id, p) ==
    /\ IsOpen(id)
    /\ LessU64(block_number, Banners[id].bid_end_height)
    /\ sender /= owner_of(id)
    /\ p > Banners[id].current_price
\* the events of a call that concern banner `id` as a sale or an abort
SettlementEvents(log, id) ==
    {i \in 1 .. Len(log) : log[i][1] \in {"Deal", "Abort", "Transferred"}
                            /\ log[i][Len(log[i]) - (IF log[i][1] = "Deal" THEN 1 ELSE 0)] = id}

\* C4: a bid of the accepted-bid branch that returns an error leaves balances,
\* the banner and the event log as they were (refund and payment are atomic)
C4_BidPaymentsAtomic ==
    [][\A sender \in Accounts, id \in Hashes, p \in BidPrices :
           (AcceptedBidCase(sender, id, p) /\ bid(sender, id, p) /\ result' /= Ok)
               => /\ FreeBalance' = FreeBalance
                  /\ Banners' = Banners
                  /\ events' = <<>>]_vars

\* C5 as claimed: at the deadline of a round with accepted bids the incremental
\* payments received by the owner add up to the final price
C5_IncrementalSumIsFinalPrice ==
    \A id \in DOMAIN round :
        (Expired(id) /\ round[id].bids >= 1)
            => /\ round[id].received = Banners[id].current_price
               /\ round[id].owner_paid = 0

\* C5 as amended: throughout a round, and so at its resolution, the incremental
\* payments received by the owner add up to the final price less the starting
\* price, and the owner has paid nothing
C5_IncrementalSumIsPriceRise ==
    /\ DOMAIN round = {id \in DOMAIN Banners : Banners[id].can_bid}
    /\ \A id \in DOMAIN round :
           /\ round[id].received = Banners[id].current_price - round[id].start
           /\ round[id].owner_paid = 0

\* a round at its deadline that started above zero and took a bid
C5_Witness ==
    \E id \in DOMAIN round :
        Expired(id) /\ round[id].start >= 1 /\ round[id].bids >= 1

\* C6: while a banner stays open, a step that changes its price raises it
C6_PriceStrictlyIncreases ==
    [][\A id \in DOMAIN Banners :
           (/\ Banners[id].can_bid
            /\ Banners'[id].can_bid
            /\ Banners'[id].current_price /= Banners[id].current_price)
               => Banners'[id].current_price > Banners[id].current_price]_vars

\* a round whose price rose twice
C6_Witness ==
    \E id \in DOMAIN round :
        /\ round[id].bids = 2
        /\ Banners[id].current_price > round[id].start + 1
        /\ HasEvent(events, BidEvent(Banners[id].current_bidder, id, Banners[id].current_price))

\* some bid call on banner `id` makes this step
BidCallOn(id) == \E sender \in Accounts, p \in BidPrices : bid(sender, id, p)

\* C7: a bid call at or after the deadline of an open banner does not apply its
\* price: balances stay, no Bid event, the caller is not recorded as bidder, and
\* the round settles at the price recorded before the call
C7_ExpiredBidNotApplied ==
    [][\A id \in Hashes :
           Expired(id) =>
               \/ /\ FreeBalance' = FreeBalance
                  /\ Banners'[id].current_bidder = Banners[id].current_bidder
                  /\ Banners'[id].current_price = 0
                  /\ events' \in
                       {<<AbortEvent(owner_of(id), id)>>,
                        <<TransferredEvent(owner_of(id), Banners[id].current_bidder, id),
                          DealEvent(Banners[id].current_bidder, id,
                                    Banners[id].current_price)>>}
                  /\ \A i \in 1 .. Len(events') : events'[i][1] /= "Bid"
               \/ ~BidCallOn(id)]_vars

\* a round was settled by a call made at or after its deadline
C7_Witness ==
    /\ result = Ok
    /\ ~LessU64(block_number, U64(AUCTION_DURATION))
    /\ \E who \in Accounts, id \in DOMAIN Banners, price \in BidPrices :
           /\ HasEvent(events, DealEvent(who, id, price))
           /\ ~Banners[id].can_bid

\* C8: resolving an expired round whose leading bidder B is not the owner O makes
\* B the owner, moves the banner from O's index to B's, resets the auction
\* fields and emits Transferred(O, B, A) then Deal(B, A, last accepted price)
C8_SoldResolution ==
    [][\A id \in Hashes :
           (Expired(id) /\ Banners[id].current_bidder /= owner_of(id)) =>
               \/ LET O == owner_of(id)
                      B == Banners[id].current_bidder
                  IN  /\ BannerOwner'[id] = B
                      /\ InOwnerIndex(OwnedBannersArray', OwnedBannersCount', B, id)
                      /\ ~InOwnerIndex(OwnedBannersArray', OwnedBannersCount', O, id)
                      /\ Banners'[id].can_bid = FALSE
                      /\ Banners'[id].bid_end_height = U64(0)
                      /\ Banners'[id].current_price = 0
                      /\ result' = Ok
                      /\ events' = <<TransferredEvent(O, B, id),
                                     DealEvent(B, id, Banners[id].current_price)>>
               \/ ~BidCallOn(id)]_vars

\* a banner sold at the highest price to an account that now holds it
C8_Witness ==
    \E O \in Accounts, B \in Accounts, id \in Minted :
        /\ events = <<TransferredEvent(O, B, id), DealEvent(B, id, MaxPrice)>>
        /\ owner_of(id) = B
        /\ InOwnerIndex(OwnedBannersArray, OwnedBannersCount, B, id)

\* C9: a round is resolved as Abort (Abort event, owner and indices unchanged,
\* banner idle) exactly when it took no accepted bid, and the leading bidder at
\* resolution is the owner exactly in that case
C9_AbortIffNoBid ==
    [][\A id \in Hashes :
           Expired(id) =>
               \/ LET aborted ==
                          /\ events' = <<AbortEvent(owner_of(id), id)>>
                          /\ UNCHANGED registry
                          /\ Banners'[id].can_bid = FALSE
                  IN  /\ aborted <=> (round[id].bids = 0)
                      /\ (Banners[id].current_bidder = owner_of(id)) <=> (round[id].bids = 0)
               \/ ~BidCallOn(id)]_vars

\* a round that took no bid was aborted and the banner stays with its owner
C9_Witness ==
    \E id \in Minted :
        /\ events = <<AbortEvent(owner_of(id), id)>>
        /\ ~Banners[id].can_bid
        /\ Banners[id].current_bidder = owner_of(id)

\* a step that is no bid call on banner `id`
StepOffBanner(id) ==
    \/ AdvanceClock
    \/ CreateBanner
    \/ SetImageUrl
    \/ AuctionBanner
    \/ \E sender \in Accounts, other \in Hashes \ {id}, p \in BidPrices : bid(sender, other, p)

\* C10: an open banner stays open with the same owner, and no Deal, Abort or
\* Transferred event is emitted for it, across clock advances, create_banner,
\* set_image_url, auction_banner and bids on other banners, also past its
\* deadline; meanwhile auction_banner on it by its owner fails as already auctioned
C10_ResolutionOnlyByBid ==
    [][\A id \in Hashes :
           IsOpen(id) =>
               /\ \/ /\ Banners'[id].can_bid
                     /\ BannerOwner'[id] = BannerOwner[id]
                     /\ SettlementEvents(events', id) = {}
                  \/ ~StepOffBanner(id)
               /\ \A p \in StartingPrices :
                      \/ /\ result' = "This banner has already been auctioned"
                         /\ Banners' = Banners
                      \/ ~auction_banner(owner_of(id), id, p)]_vars

\* a banner still open at its deadline whose re-auction was refused
C10_Witness ==
    \E id \in Minted :
        /\ Expired(id)
        /\ result = "This banner has already been auctioned"

\* everything but the Result and the events of the last call
storage == <<Banners, registry, block_number, FreeBalance, round>>

\* C11: a bid call on a banner that is not open (minted or resolved, and not
\* auctioned again) fails with the not-auctioning error and changes nothing:
\* no transfer of ownership, no event, no balance change
C11_BidOnIdleFails ==
    [][\A id \in DOMAIN Banners :
           ~Banners[id].can_bid =>
               \/ /\ result' = "This banner can't be bid"
                  /\ events' = <<>>
                  /\ UNCHANGED storage
               \/ ~BidCallOn(id)]_vars

\* the only banner was sold to account 3, and a later bid on it was refused
C11_Witness ==
    /\ AllBannersCount = 1
    /\ result = "This banner can't be bid"
    /\ \E id \in Minted :
           /\ owner_of(id) \notin Creators
           /\ ~Banners[id].can_bid

\* the errors of failed preconditions
PreconditionErrors ==
    {"banner already exists",
     "Overflow adding a new banner to account balance",
     "Overflow adding a new banner to total supply",
     "This banner does not exist",
     "No owner for this banner",
     "You do not own this banner",
     "This banner has already been auctioned",
     "This banner can't be bid",
     "You can't bid your own banner",
     "your bid price must be greater than current price"}

\* C12: a call that fails a precondition leaves banners, owners, indices,
\* counts, nonce and balances as they were and emits no event (a step of the
\* clock is not a call and keeps the Result of the call before it)
C12_FailedPreconditionChangesNothing ==
    [][\/ UNCHANGED storage /\ events' = <<>>
       \/ result' \notin PreconditionErrors
       \/ AdvanceClock]_vars

\* a refused call while one banner is open and the other is not
C12_Witness ==
    /\ result \in PreconditionErrors
    /\ events = <<>>
    /\ \E a \in Minted, b \in Minted : Banners[a].can_bid /\ ~Banners[b].can_bid

\* the three conditions of lines 108-114
MayAuction(sender, id) ==
    /\ id \in DOMAIN Banners
    /\ owner_of(id) = sender
    /\ ~Banners[id].can_bid

\* C13: auction_banner(A, s) succeeds exactly when A exists, the caller owns it
\* and it is not open; it then opens A at price s with the caller as bidder and
\* the deadline the current block number plus AUCTION_DURATION, which is not
\* before the current block (no wrap-around), emits StartAuction(caller, A, s),
\* and changes no balance, owner, index or other banner
C13_AuctionBannerEffect ==
    [][\A sender \in Accounts, id \in Hashes, s \in StartingPrices :
           \/ IF MayAuction(sender, id)
              THEN /\ result' = Ok
                   /\ Banners' = [Banners EXCEPT ![id].can_bid = TRUE,
                                                 ![id].current_price = s,
                                                 ![id].current_bidder = sender,
                                                 ![id].bid_end_height =
                                                     AddU64(block_number, U64(14400)).value]
                   /\ ~LessU64(Banners'[id].bid_end_height, block_number)
                   /\ events' = <<StartAuctionEvent(sender, id, s)>>
                   /\ UNCHANGED <<registry, FreeBalance, block_number>>
              ELSE result' /= Ok
           \/ ~auction_banner(sender, id, s)]_vars

\* C14: before the deadline of an open banner, a bid by the owner is refused
\* as a bid on one's own banner whatever the price, a bid not above the
\* current price is refused as too low, and a bid that is accepted comes from
\* another account with a higher price, which become the recorded bidder and
\* price
C14_BidAcceptance ==
    [][\A id \in Hashes :
           (IsOpen(id) /\ LessU64(block_number, Banners[id].bid_end_height)) =>
               \A sender \in Accounts, p \in BidPrices :
                   \/ IF sender = owner_of(id)
                      THEN result' = "You can't bid your own banner"
                      ELSE IF p <= Banners[id].current_price
                      THEN result' = "your bid price must be greater than current price"
                      ELSE result' = Ok =>
                               /\ Banners'[id].current_bidder = sender
                               /\ Banners'[id].current_price = p
                   \/ ~bid(sender, id, p)]_vars

\* the only banner is open before its deadline at price 1, and a bid of at
\* most 1 on it was refused as too low
C14_Witness ==
    /\ AllBannersCount = 1
    /\ result = "your bid price must be greater than current price"
    /\ \E id \in Minted :
           /\ IsOpen(id)
           /\ LessU64(block_number, Banners[id].bid_end_height)
           /\ Banners[id].current_price = 1

\* map `after` is map `before` with the one new entry key -> value
OneMore(before, after, key, value) ==
    /\ key \notin DOMAIN before
    /\ DOMAIN after = DOMAIN before \cup {key}
    /\ after[key] = value
    /\ \A k \in DOMAIN before : after[k] = before[k]

\* C15: a successful create_banner by O adds exactly one banner, owned by O,
\* with zero price, zero deadline, not open and O as bidder, at the global
\* position AllBannersCount and at O's position OwnedBannersCount[O] (both as
\* before the call), raises these two counts and Nonce by one, and leaves
\* every other banner, owner, index entry, count and balance as it was; a
\* failed create_banner keeps Nonce
C15_CreateBannerEffect ==
    [][\A sender \in Creators, name \in Names, url \in Urls, desc \in Descs, h \in Hashes :
           \/ IF result' = Ok
              THEN /\ OneMore(Banners, Banners', h,
                              [id |-> h, name |-> name, image_url |-> url, desc |-> desc,
                               current_price |-> 0, current_bidder |-> sender,
                               bid_end_height |-> U64(0), can_bid |-> FALSE])
                   /\ OneMore(BannerOwner, BannerOwner', h, sender)
                   /\ OneMore(AllBannersArray, AllBannersArray', AllBannersCount, h)
                   /\ OneMore(AllBannersIndex, AllBannersIndex', h, AllBannersCount)
                   /\ OneMore(OwnedBannersArray, OwnedBannersArray',
                              <<sender, owned_banner_count(sender)>>, h)
                   /\ OneMore(OwnedBannersIndex, OwnedBannersIndex', h,
                              owned_banner_count(sender))
                   /\ AllBannersCount' = AllBannersCount + 1
                   /\ \A who \in Accounts :
                          MapGet(OwnedBannersCount', who, 0) =
                              owned_banner_count(who) + (IF who = sender THEN 1 ELSE 0)
                   /\ Nonce' = Nonce + 1
                   /\ UNCHANGED <<FreeBalance, block_number>>
              ELSE Nonce' = Nonce
           \/ ~create_banner(sender, name, url, desc, h)]_vars

\* an account's second banner was minted as the second banner overall
C15_Witness ==
    \E sender \in Creators, h \in Minted :
        /\ events = <<CreateBannerEvent(sender, h)>>
        /\ result = Ok
        /\ AllBannersCount = 2
        /\ owned_banner_count(sender) = 2
        /\ AllBannersIndex[h] = 1
        /\ OwnedBannersIndex[h] = 1

\* C16: the global index only grows: AllBannersCount never decreases, the
\* AllBannersArray entry and the AllBannersIndex of a minted banner never
\* change, and a step that changes any of the three is a create_banner
C16_GlobalIndexAppendOnly ==
    [][/\ AllBannersCount' >= AllBannersCount
       /\ \A i \in DOMAIN AllBannersArray :
              i \in DOMAIN AllBannersArray' /\ AllBannersArray'[i] = AllBannersArray[i]
       /\ \A id \in DOMAIN AllBannersIndex :
              id \in DOMAIN AllBannersIndex' /\ AllBannersIndex'[id] = AllBannersIndex[id]
       /\ \/ UNCHANGED <<AllBannersArray, AllBannersCount, AllBannersIndex>>
          \/ CreateBanner]_vars

\* the first minted banner was sold by the last call and is still the first
\* of two in the global index
C16_Witness ==
    \E from \in Accounts, to \in Accounts, id \in Minted :
        /\ HasEvent(events, TransferredEvent(from, to, id))
        /\ AllBannersCount = 2
        /\ AllBannersIndex[id] = 0
        /\ AllBannersArray[0] = id

\* the checks of transfer_from (lines 211-218) pass for the sale of an open
\* banner to its recorded bidder: the seller is the owner and holds at least
\* one banner, and the buyer holds fewer banners than exist, so that one more
\* does not overflow the counter that holds AllBannersCount
ResolutionTransferSafe ==
    \A id \in DOMAIN Banners :
        (Banners[id].can_bid /\ Banners[id].current_bidder /= owner_of(id)) =>
            /\ MapExists(BannerOwner, id)
            /\ owned_banner_count(owner_of(id)) >= 1
            /\ owned_banner_count(Banners[id].current_bidder) < AllBannersCount
            /\ transfer_from(owner_of(id), Banners[id].current_bidder, id).result = Ok

\* C17: the transfer_from call of a resolution cannot fail, so a bid call at
\* or after the deadline of an open banner returns Ok and never leaves the
\* banner reset without moving it to the recorded bidder
C17_ResolutionCannotFail ==
    /\ []ResolutionTransferSafe
    /\ [][\A id \in Hashes :
              Expired(id) =>
                  \/ /\ result' = Ok
                     /\ ~Banners'[id].can_bid
                     /\ owner_of(id)' = Banners[id].current_bidder
                  \/ ~BidCallOn(id)]_vars

\* a resolution sold a banner to an account that already held one
C17_Witness ==
    \E from \in Accounts, to \in Accounts, id \in Minted :
        /\ HasEvent(events, TransferredEvent(from, to, id))
        /\ HasEvent(events, DealEvent(to, id, 1))
        /\ result = Ok
        /\ owner_of(id) = to
        /\ owned_banner_count(to) = 2
        /\ ~Banners[id].can_bid

\* C18: a banner that is not open has zero price, zero deadline and its
\* owner as recorded bidder, whether it was just minted, withdrawn without a
\* bid, or sold
C18_IdleFieldsNeutral ==
    \A id \in DOMAIN Banners :
        ~Banners[id].can_bid =>
            /\ Banners[id].current_price = 0
            /\ Banners[id].bid_end_height = U64(0)
            /\ MapExists(BannerOwner, id)
            /\ Banners[id].current_bidder = owner_of(id)

\* of two idle banners one was sold for a positive price by the last call and
\* belongs to its buyer, the other is with the account that minted it
C18_Witness ==
    \E sold \in Minted, kept \in Minted, to \in Accounts :
        /\ sold /= kept
        /\ HasEvent(events, DealEvent(to, sold, 1))
        /\ ~Banners[sold].can_bid
        /\ owner_of(sold) = to
        /\ ~Banners[kept].can_bid
        /\ owner_of(kept) \in Creators \ {to}
        /\ block_number /= U64(0)

RECURSIVE TotalOf(_, _)
\* the sum of the balances of the accounts in `who`
TotalOf(bal, who) ==
    IF who = {} THEN 0
    ELSE LET a == CHOOSE x \in who : TRUE IN bal[a] + TotalOf(bal, who \ {a})

\* what a round that ends at price P should have added to an account
RoundShare(a, winner, owner, P) ==
    IF a = winner THEN 0 - P ELSE IF a = owner THEN P ELSE 0

\* C19: money is conserved by this module: a bid call on an open banner leaves
\* the sum of all balances unchanged, and when a round with at least one
\* accepted bid is resolved at price P, the transfers of the round have taken
\* exactly P from the winner, given exactly P to the owner of the round, and
\* left every other account as it was
C19_MoneyConserved ==
    /\ [][\A id \in Hashes :
              IsOpen(id) =>
                  \/ TotalOf(FreeBalance', Accounts) = TotalOf(FreeBalance, Accounts)
                  \/ ~BidCallOn(id)]_vars
    /\ [][\A id \in Hashes :
              (Expired(id) /\ round[id].bids >= 1 /\ NetKept(round[id])) =>
                  \/ \A a \in Accounts :
                         round[id].net[a] + FreeBalance'[a] - FreeBalance[a] =
                             RoundShare(a, Banners[id].current_bidder, owner_of(id),
                                        Banners[id].current_price)
                  \/ ~BidCallOn(id)]_vars

\* the runs in which one account mints (the other accounts come to own
\* banners by winning them) and the chain goes on to the block numbers at
\* which the deadline of line 119 passes 2^64
LiveCreators == {1}
LiveCreateBanner ==
    \E sender \in LiveCreators, name \in Names, url \in Urls, desc \in Descs, h \in Hashes :
        create_banner(sender, name, url, desc, h)
LiveClockValues == {U64(0), FirstWrappingBlock}
LiveAdvanceClock ==
    /\ \E h \in LiveClockValues : LessU64(block_number, h) /\ block_number' = h
    /\ UNCHANGED <<Banners, registry, FreeBalance, events, result, round>>
LiveNext == LiveCreateBanner \/ SetImageUrl \/ AuctionBanner \/ Bid \/ LiveAdvanceClock

\* blocks keep being produced, and for each banner bid calls on it keep being
\* made
LiveSpec ==
    /\ Init /\ [][LiveNext]_vars
    /\ WF_vars(LiveAdvanceClock)
    /\ \A id \in Hashes : WF_vars(BidCallOn(id))

\* C20: with block production and bid calls on A weakly fair, an open banner
\* A is eventually not open, and the first bid call on A at or after its
\* deadline closes it, whoever calls and whatever the price
C20_OpenEventuallyIdle ==
    /\ \A id \in Hashes :
           IsOpen(id) ~> ~IsOpen(id)
    /\ [][\A id \in Hashes :
              Expired(id) =>
                  \/ ~Banners'[id].can_bid
                  \/ ~BidCallOn(id)]_vars

\* a round without bids was closed at or after its deadline by a bid call
C20_Witness ==
    \E who \in Accounts, id \in Minted :
        /\ events = <<AbortEvent(who, id)>>
        /\ ~IsOpen(id)
        /\ ~LessU64(block_number, U64(AUCTION_DURATION))
====
